---- MODULE Spec2Model ----
(***************************************************************************)
(* card-tools: the batch pipeline of process_cards.py.                     *)
(*                                                                         *)
(* One run of the command line driver: for every input file, detect card   *)
(* rectangles (primary detector, morphology fallback, contour-merge        *)
(* fallback), crop and rotate the first max_rectangles of them, trim each  *)
(* crop, send each trimmed crop to the metadata extraction and store the   *)
(* answer under the MD5 of the final image file.                           *)
(*                                                                         *)
(* What OpenCV returns for an image (the contours of each strategy, their  *)
(* areas and fitted rectangles) is input: it is drawn from ContourPool.    *)
(* Fitted rectangles are axis parallel; their corners are fixed-point      *)
(* numbers with FracUnits steps per pixel, so that np.int32 truncates.     *)
(*                                                                         *)
(* Besides the batch (Spec, SpecSheets, SpecDetect) the module has a       *)
(* specification for each part that is run on its own: boxes_overlap on    *)
(* any two boxes (SpecOverlap), the rename of a trimmed crop for any       *)
(* player name (SpecRename), the search for dense regions of the contour   *)
(* merging on a grid of cells (SpecGrid, SpecGridFair), the eBay token of  *)
(* web/app/ebay.py (SpecToken) and the OCR endpoint of web/app/main.py     *)
(* with its cache (SpecWeb).  In each of them the variables of the other   *)
(* parts stay at their idle values.                                        *)
(***************************************************************************)
EXTENDS Integers, Sequences, FiniteSets, TLC

\* ---------------------------------------------------------------- bounds
MaxImages == 2      \* input files on the command line
MaxContours == 2    \* contours OpenCV returns to one strategy
MaxRect == 3        \* largest --max_rectangles tried
MaxCoord == 3       \* largest pixel coordinate of the boxes handed to boxes_overlap
MaxNameLen == 3     \* longest player name, in characters
MaxAlike == 5       \* most fragments with the same bounding rectangle

\* fixed-point steps per pixel of a fitted rectangle's float coordinates
FracUnits == 4

\* ------------------------------------------------------------- arithmetic
Min(a, b) == IF a < b THEN a ELSE b
Max(a, b) == IF a > b THEN a ELSE b
Abs(a) == IF a < 0 THEN -a ELSE a

\* int(math.sqrt(n)): the integer part of the square root
RECURSIVE IsqrtFrom(_, _)
IsqrtFrom(n, r) == IF (r + 1) * (r + 1) > n THEN r ELSE IsqrtFrom(n, r + 1)
Isqrt(n) == IsqrtFrom(n, 0)

\* ------------------------------------------------- what OpenCV hands back
\* A contour as the code sees it: cv2.contourArea(contour) in pixels^2 and
\* cv2.minAreaRect(contour) as float corners (x0,y0)-(x1,y1) in 1/FracUnits
\* pixel; ang is the angle OpenCV reports for it, 0 (width along x) or 90
\* (width along y).
Contour(ca, x0, y0, x1, y1, ang) ==
    [carea |-> ca, x0 |-> x0, y0 |-> y0, x1 |-> x1, y1 |-> y1, ang |-> ang]

CardA == Contour(60, 0, 0, 28, 40, 0)        \* 7 x 10 px card, ratio 0.70
CardAShifted == Contour(60, 4, 0, 32, 40, 90) \* the same card found 1 px to the right
CardB == Contour(45, 48, 0, 76, 40, 90)      \* 7 x 10 px card with a small contour area
Slim == Contour(20, 0, 48, 16, 73, 0)        \* 4 x 6.25 px, ratio 0.64
Wide == Contour(18, 48, 48, 64, 68, 0)       \* 4 x 5 px, ratio 0.80
Speck == Contour(0, 80, 0, 83, 4, 0)         \* 0.75 x 1 px, ratio 0.75
Square == Contour(70, 0, 80, 32, 112, 0)     \* 8 x 8 px, ratio 1.00
CardFrac == Contour(50, 48, 80, 71, 115, 0)  \* 5.75 x 8.75 px, ratio 0.66

ContourPool == {CardA, CardAShifted, CardB, Slim, Wide, Speck, Square, CardFrac}

\* the lists cv2.findContours may return: distinct contours, in any order
ContourSeqs ==
    { s \in UNION { [1..n -> ContourPool] : n \in 0..MaxContours } :
        \A a, b \in 1..Len(s) : a # b => s[a] # s[b] }

\* rect[1] of cv2.minAreaRect: (width, height) in 1/FracUnits pixel
RectWidth(c) == IF c.ang = 0 THEN c.x1 - c.x0 ELSE c.y1 - c.y0
RectHeight(c) == IF c.ang = 0 THEN c.y1 - c.y0 ELSE c.x1 - c.x0

\* np.int32(cv2.boxPoints(rect)): every corner truncated to whole pixels
Int32(q) == IF q >= 0 THEN q \div FracUnits ELSE -((-q) \div FracUnits)
BoxPoints(c) ==
    [x0 |-> Int32(c.x0), y0 |-> Int32(c.y0),
     x1 |-> Int32(c.x1), y1 |-> Int32(c.y1), ang |-> c.ang]

\* cv2.contourArea(box) of the integer box
BoxArea(b) == (b.x1 - b.x0) * (b.y1 - b.y0)

\* cv2.minAreaRect(box) of an integer box: size (width, height) in pixels
BoxWidth(b) == IF b.ang = 0 THEN b.x1 - b.x0 ELSE b.y1 - b.y0
BoxHeight(b) == IF b.ang = 0 THEN b.y1 - b.y0 ELSE b.x1 - b.x0

\* ------------------------------------------------------- boxes_overlap
\* dx < (width1 + width2) * 0.7 and dy < (height1 + height2) * 0.7, with
\* centers and half sizes of the two fitted rectangles; every term doubled
\* and the factor 0.7 written as 7/10.
boxes_overlap_by_first(box1, box2) ==
    LET dx2 == Abs((box1.x0 + box1.x1) - (box2.x0 + box2.x1))
        dy2 == Abs((box1.y0 + box1.y1) - (box2.y0 + box2.y1))
    IN  /\ 10 * dx2 < 7 * (BoxWidth(box1) + BoxWidth(box1))
        /\ 10 * dy2 < 7 * (BoxHeight(box1) + BoxHeight(box1))
boxes_overlap(box1, box2) ==
    LET dx2 == Abs((box1.x0 + box1.x1) - (box2.x0 + box2.x1))
        dy2 == Abs((box1.y0 + box1.y1) - (box2.y0 + box2.y1))
    IN  /\ 10 * dx2 < 7 * (BoxWidth(box1) + BoxWidth(box2))
        /\ 10 * dy2 < 7 * (BoxHeight(box1) + BoxHeight(box2))

\* the loop "for existing_box in existing_boxes: if boxes_overlap(...)"
IsDuplicate(box, existing_rectangles) ==
    \E j \in 1..Len(existing_rectangles) :
        boxes_overlap(box, existing_rectangles[j].box)

\* --------------------------------------------------------- the candidates
\* The tuple (area, box) the code appends.  strategy, rw, rh and carea are
\* history: the detector that accepted the box, the float size and the
\* contour area it tested.
Candidate(c, strategy) ==
    [area |-> BoxArea(BoxPoints(c)), box |-> BoxPoints(c),
     strategy |-> strategy, rw |-> RectWidth(c), rh |-> RectHeight(c),
     carea |-> c.carea]

\* 0.65 <= min(w,h)/max(w,h) <= 0.75, the ratio being 0 when min(w,h) = 0
PrimaryAspectNoLower(w, h) ==
    /\ Min(w, h) > 0
    /\ 100 * Min(w, h) <= 75 * Max(w, h)
PrimaryAspectOk(w, h) ==
    /\ Min(w, h) > 0
    /\ 65 * Max(w, h) <= 100 * Min(w, h)
    /\ 100 * Min(w, h) <= 75 * Max(w, h)

\* 0.63 <= ratio <= 0.77, the ratio being 0 when max(w,h) = 0
MorphologyAspectOk(w, h) ==
    /\ Max(w, h) > 0
    /\ 63 * Max(w, h) <= 100 * Min(w, h)
    /\ 100 * Min(w, h) <= 77 * Max(w, h)

\* 0.60 <= ratio <= 0.80, the ratio being 0 when max(w,h) = 0
MergeAspectNoUpper(w, h) ==
    /\ Max(w, h) > 0
    /\ 60 * Max(w, h) <= 100 * Min(w, h)
MergeAspectOk(w, h) ==
    /\ Max(w, h) > 0
    /\ 60 * Max(w, h) <= 100 * Min(w, h)
    /\ 100 * Min(w, h) <= 80 * Max(w, h)

\* "if area < min_area: continue" and its relaxed forms 0.8 and 0.7
PrimaryAreaRelaxed(carea, min_area) == ~(10 * carea < 8 * min_area)
PrimaryAreaOk(carea, min_area) == ~(carea < min_area)
MorphologyAreaOk(carea, min_area) == ~(10 * carea < 8 * min_area)
MergeAreaAny(carea, min_area) == TRUE
MergeAreaOk(carea, min_area) == ~(10 * carea < 7 * min_area)

\* rectangles.sort(key=lambda x: x[0], reverse=True): a stable sort by
\* area, largest first; equal areas keep the order they had.
InsertBeforeEqual(sorted, x) ==
    LET before == { j \in 1..Len(sorted) : sorted[j].area > x.area }
        n == IF before = {} THEN 0
             ELSE CHOOSE j \in before : \A m \in before : m <= j
    IN  SubSeq(sorted, 1, n) \o <<x>> \o SubSeq(sorted, n + 1, Len(sorted))
InsertByArea(sorted, x) ==
    LET before == { j \in 1..Len(sorted) : sorted[j].area >= x.area }
        n == IF before = {} THEN 0
             ELSE CHOOSE j \in before : \A m \in before : m <= j
    IN  SubSeq(sorted, 1, n) \o <<x>> \o SubSeq(sorted, n + 1, Len(sorted))

KeepOrder(s) == s
RECURSIVE SortByAreaDesc(_)
SortByAreaDesc(s) ==
    IF s = <<>> THEN <<>>
    ELSE InsertByArea(SortByAreaDesc(SubSeq(s, 1, Len(s) - 1)), s[Len(s)])

\* the primary loop over contours (no overlap test)
RECURSIVE PrimaryScan(_, _)
PrimaryScan(contours, min_area) ==
    IF contours = <<>> THEN <<>>
    ELSE LET c == Head(contours)
             rest == PrimaryScan(Tail(contours), min_area)
         IN  IF /\ PrimaryAreaOk(c.carea, min_area)
                /\ PrimaryAspectOk(RectWidth(c), RectHeight(c))
             THEN <<Candidate(c, "primary")>> \o rest
             ELSE rest

\* find_rectangles_with_morphology: existing_boxes is fixed before the loop
RECURSIVE find_rectangles_with_morphology(_, _, _)
find_rectangles_with_morphology(contours, min_area, existing_rectangles) ==
    IF contours = <<>> THEN <<>>
    ELSE LET c == Head(contours)
             rest == find_rectangles_with_morphology(
                         Tail(contours), min_area, existing_rectangles)
         IN  IF /\ MorphologyAreaOk(c.carea, min_area)
                /\ MorphologyAspectOk(RectWidth(c), RectHeight(c))
                /\ ~IsDuplicate(BoxPoints(c), existing_rectangles)
             THEN <<Candidate(c, "morphology")>> \o rest
             ELSE rest

\* find_rectangles_with_contour_merging, from the contours of the fused
\* region masks on: existing_boxes is fixed before the loop
RECURSIVE find_rectangles_with_contour_merging(_, _, _)
find_rectangles_with_contour_merging(contours, min_area, existing_rectangles) ==
    IF contours = <<>> THEN <<>>
    ELSE LET c == Head(contours)
             rest == find_rectangles_with_contour_merging(
                         Tail(contours), min_area, existing_rectangles)
         IN  IF /\ MergeAreaOk(c.carea, min_area)
                /\ MergeAspectOk(RectWidth(c), RectHeight(c))
                /\ ~IsDuplicate(BoxPoints(c), existing_rectangles)
             THEN <<Candidate(c, "contour_merge")>> \o rest
             ELSE rest

\* ------------------------------------------------------- the normalizer
\* rectangles[:max_rectangles] (a negative n counts from the end)
SliceThrough(s, n) == SubSeq(s, 1, Min(n + 1, Len(s)))
SliceTo(s, n) ==
    IF n >= 0 THEN SubSeq(s, 1, Min(n, Len(s)))
    ELSE SubSeq(s, 1, Max(0, Len(s) + n))

\* "if width < height: angle += 90"
AdjustAngleNever(width, height, angle) == angle
AdjustAngle(width, height, angle) ==
    IF width < height THEN angle + 90 ELSE angle

\* Lines 493-554 for one box of an image of cols x rows pixels: the bounds
\* of the crop in the rotated padded image, after clamping.  The box is
\* turned about the truncated center by angle, 0, 90 or 180 degrees.
CropBounds(box, cols, rows) ==
    LET width == BoxWidth(box)
        height == BoxHeight(box)
        angle == AdjustAngle(width, height, box.ang)
        diagonal == Isqrt(width * width + height * height) + 20
        padded_width == cols + 2 * diagonal
        padded_height == rows + 2 * diagonal
        cx == (box.x0 + box.x1) \div 2 + diagonal
        cy == (box.y0 + box.y1) \div 2 + diagonal
        padded_box == { <<box.x0 + diagonal, box.y0 + diagonal>>,
                        <<box.x1 + diagonal, box.y0 + diagonal>>,
                        <<box.x1 + diagonal, box.y1 + diagonal>>,
                        <<box.x0 + diagonal, box.y1 + diagonal>> }
        Turn(p) == IF angle = 0 THEN p
                   ELSE IF angle = 90
                        THEN <<cx + (p[2] - cy), cy - (p[1] - cx)>>
                        ELSE <<cx - (p[1] - cx), cy - (p[2] - cy)>>
        rotated_box == { Turn(p) : p \in padded_box }
        xs == { p[1] : p \in rotated_box }
        ys == { p[2] : p \in rotated_box }
        MinOf(S) == CHOOSE v \in S : \A u \in S : v <= u
        MaxOf(S) == CHOOSE v \in S : \A u \in S : v >= u
    IN  [x_min |-> Max(0, MinOf(xs)), y_min |-> Max(0, MinOf(ys)),
         x_max |-> Min(padded_width, MaxOf(xs)),
         y_max |-> Min(padded_height, MaxOf(ys)),
         padded_width |-> padded_width, padded_height |-> padded_height,
         diagonal |-> diagonal, angle |-> angle]

\* "if x_min >= x_max or y_min >= y_max: ... skipping"
InvalidCropNever(cb) == FALSE
InvalidCrop(cb) == cb.x_min >= cb.x_max \/ cb.y_min >= cb.y_max

\* final_image.size of the crop turned by 90 degrees
FinalSize(cb) == (cb.x_max - cb.x_min) * (cb.y_max - cb.y_min)

\* cv2.rotate(cropped_image, cv2.ROTATE_90_CLOCKWISE): the rows of the crop
\* become the columns of the output
FinalShape(cb) ==
    [width |-> cb.y_max - cb.y_min, height |-> cb.x_max - cb.x_min]

\* ------------------------------------------------------------- the files
\* An input file: its path, the stem of its base name, and what the codec
\* makes of it: "ok"; "noext" (readable, but cv2.imwrite knows no writer for
\* its extension and raises); "unreadable" (cv2.imread returns None);
\* "notfile" (os.path.isfile is false).
\* primary, morphology and contour_merge are the contour lists OpenCV
\* finds in the file for the three strategies; when any is TRUE nothing is
\* known of the file and OpenCV may find any contours in it.
Image(path, name, kind, any, primary, morphology, contour_merge) ==
    [path |-> path, name |-> name, kind |-> kind, cols |-> 24, rows |-> 32,
     any |-> any, primary |-> primary, morphology |-> morphology,
     contour_merge |-> contour_merge]

\* cv2.findContours in one strategy: the lists it may return
FoundContours(img, known) == IF img.any THEN ContourSeqs ELSE {known}

\* the scans of a batch: a sheet with two cards, one of them faint; a card
\* in a file without extension; a broken file; a directory
ImagePool ==
    { Image("scans/a.jpg", "a", "ok", FALSE, <<CardA, CardB>>, <<CardB>>, <<>>),
      Image("scans/b", "b", "noext", FALSE, <<CardA>>, <<>>, <<>>),
      Image("scans/c.jpg", "c", "unreadable", FALSE, <<>>, <<>>, <<>>),
      Image("scans/d", "d", "notfile", FALSE, <<>>, <<>>, <<>>) }

InputLists == UNION { [1..n -> ImagePool] : n \in 1..MaxImages }

\* readable sheets only: a sheet with one card; a file of the same base
\* name in another directory; a sheet on which nothing qualifies as a card
SheetPool ==
    { Image("scans/a.jpg", "a", "ok", FALSE, <<CardA>>, <<>>, <<>>),
      Image("other/a.jpg", "a", "ok", FALSE, <<CardAShifted>>, <<>>, <<>>),
      Image("scans/e.jpg", "e", "ok", FALSE, <<Square>>, <<Slim>>, <<Wide>>) }

SheetLists == UNION { [1..n -> SheetPool] : n \in 1..MaxImages }

\* a scan of which nothing is known: OpenCV may find any contours in it
AnyImage == Image("scans/s.jpg", "s", "ok", TRUE, <<>>, <<>>, <<>>)

\* contents of image files
CropBytes == {0, 1}
\* what ImageMagick's convert -trim writes for a crop
TrimBytes(b) == b + 2
\* hashlib.md5(...).hexdigest() of a file's contents
Md5(b) == (5 * b + 3) % 16

\* <output_dir>/<name>-cropped-<i><ext>
CropPath(name, idx) ==
    [dir |-> "out", prefix |-> <<>>, stem |-> name, idx |-> idx, suffix |-> "cropped"]
\* trim_image: <trimmed_dir>/<name of the crop>-trimmed<ext>
TrimmedPath(cropped_path) ==
    [cropped_path EXCEPT !.dir = "trimmed", !.suffix = "trimmed"]

\* re.sub(r'[<>:"/\\|?*]', '_', name).replace(' ', '_').strip()
IllegalChars == {"<", ">", ":", "\"", "/", "\\", "|", "?", "*"}
WhitespaceChars == {" ", "\t", "\n"}
RECURSIVE LStrip(_)
LStrip(s) == IF s # <<>> /\ Head(s) \in WhitespaceChars THEN LStrip(Tail(s)) ELSE s
RECURSIVE RStrip(_)
RStrip(s) ==
    IF s # <<>> /\ s[Len(s)] \in WhitespaceChars
    THEN RStrip(SubSeq(s, 1, Len(s) - 1)) ELSE s
SafePlayerName(player_name) ==
    LET subbed == [j \in 1..Len(player_name) |->
                     IF player_name[j] \in IllegalChars THEN "_" ELSE player_name[j]]
        replaced == [j \in 1..Len(subbed) |->
                     IF subbed[j] = " " THEN "_" ELSE subbed[j]]
    IN  RStrip(LStrip(replaced))

\* f"{safe_player_name}-{original_filename}" in the directory of the file
FinalPath(trimmed_path, player_name) ==
    [trimmed_path EXCEPT !.prefix = SafePlayerName(player_name)]

\* What analyze_trading_card returns: text that is no JSON (an error
\* message), or a JSON object whose player_name is a string, <<>> when the
\* field is missing or empty.
OcrResults ==
    { [json |-> FALSE, player_name |-> <<>>],
      [json |-> TRUE, player_name |-> <<>>],
      [json |-> TRUE, player_name |-> <<"A", " ", "B">>] }

\* a file system write: the file at path is created or replaced
WriteFile(fs, path, data) ==
    { f \in fs : f.path # path } \cup { [path |-> path, data |-> data] }
RemoveFile(fs, path) == { f \in fs : f.path # path }
Exists(fs, path) == \E f \in fs : f.path = path
ReadFile(fs, path) == (CHOOSE f \in fs : f.path = path).data

\* "with open(final_image_path, 'rb') ...: img_hash = md5(...)" and the
\* name <img_hash>.json in the directory of the final image
JsonFilenameOfCrop(fs, final_image_path) ==
    Md5(ReadFile(fs, [final_image_path EXCEPT
                        !.dir = "out", !.prefix = <<>>, !.suffix = "cropped"]))
JsonFilename(fs, final_image_path) == Md5(ReadFile(fs, final_image_path))

\* the arguments of exit() in the three branches of the main guard
ExitCodeSwallowed == 1 - 1
ExitCodeCompleted == 0
ExitCodeInterrupted == 0
ExitCodeException == 1


\* ---------------------------------------------------------------- state
VARIABLES
    input_files,          \* args.input_files, globs expanded
    max_rectangles,       \* args.max_rectangles
    min_area,             \* args.min_area
    k,                    \* main: position in input_files
    pc,                   \* where the run is
    rectangles,           \* crop_and_rotate_rectangles: the candidate list
    i,                    \* crop_and_rotate_rectangles: position in rectangles[:max_rectangles]
    cropped_image_paths,  \* crop_and_rotate_rectangles: the paths written
    t,                    \* process_image: position in cropped_paths
    trimmed_paths,        \* process_image: the trimmed files
    o,                    \* process_image: position in trimmed_paths
    files,                \* image files of the output directory: {[path, data]}
    json_files,           \* <hash>.json files of the trimmed directory: {[path, data]}
    exit_code,            \* -1 while running, then the argument of exit()
    hist                  \* history of the run, read by the properties only

\* state of the functions that are also run on their own
VARIABLES
    boxes,                \* boxes_overlap: the pair (box1, box2) it is called with
    overlapping,          \* boxes_overlap: the value it returned, <<>> before the call
    ocr_name,             \* process_image: ocr_data["player_name"] of one trimmed crop
    renamed_path,         \* process_image: final_image_path after the rename, <<>> before
    potential_parts,      \* contour merging: bounding rectangles of the fragments
    grid,                 \* contour merging: grid[<<r, c>>], the fragments of a cell
    cell,                 \* contour merging: <<r, c>> of the scan "for r ... for c ..."
    gpc,                  \* contour merging: "scan", "fill" or "done"
    processed_cells,      \* contour merging: cells of the regions closed so far
    region,               \* contour merging: fragments of the region being filled
    region_cells,         \* contour merging: cells of the region being filled
    frontier,             \* contour merging: the queue of the fill
    card_regions,         \* contour merging: the regions kept
    pushed,               \* history: how often each cell was put on a frontier
    token_file,           \* ebay.py: the JSON object in config/ebay_oauth_token.json
    now,                  \* ebay.py: int(time.time())
    token_result,         \* history: the last call of ebay.py and its outcome, <<>> before
    cache,                \* web: the files of the directory cache/: {[path, data]}
    ocr_response,         \* web: the last response of /api/ocr-image, <<>> before
    extracted             \* history: hashes whose extraction returned parseable JSON

batch == <<input_files, max_rectangles, min_area, k, pc, rectangles, i,
           cropped_image_paths, t, trimmed_paths, o, files, json_files,
           exit_code, hist>>
ovars == <<boxes, overlapping>>
rvars == <<ocr_name, renamed_path>>
gvars == <<potential_parts, grid, cell, gpc, processed_cells, region,
           region_cells, frontier, card_regions, pushed>>
tvars == <<token_file, now, token_result>>
wvars == <<cache, ocr_response, extracted>>
others == <<ovars, rvars, gvars, tvars, wvars>>
vars == <<batch, others>>

args == <<input_files, max_rectangles, min_area>>

TrimmedData == { TrimBytes(b) : b \in CropBytes }

\* the history of one image: its detection (discovered lists the accepted
\* candidates in the order the detectors appended them, until the loop
\* over the candidates starts) and cropping, then the crop
\* indices trim_image was called for and failed for, and those the
\* extraction was called for and failed for
NoDetection ==
    [n_primary |-> -1, morph_ran |-> FALSE, n_after_morph |-> -1,
     merge_ran |-> FALSE, n_morph_found |-> -1, detected |-> FALSE,
     discovered |-> <<>>,
     visited |-> {}, skipped |-> {}, cropped |-> {}, written |-> {},
     trims |-> {}, trim_failed |-> {}, submitted |-> {}, failed |-> {}]

\* no call of boxes_overlap outside a batch
NoOverlapCall == boxes = <<>> /\ overlapping = <<>>
\* no crop being renamed outside a batch
NoRename == ocr_name = <<>> /\ renamed_path = <<>>
\* no contour merging outside a batch
NoGrid ==
    /\ potential_parts = <<>> /\ grid = <<>> /\ cell = <<0, 0>> /\ gpc = "idle"
    /\ processed_cells = {} /\ region = {} /\ region_cells = {}
    /\ frontier = <<>> /\ card_regions = <<>> /\ pushed = <<>>
\* no eBay call outside the web application
NoToken == token_file = <<>> /\ now = 0 /\ token_result = <<>>
\* the web application has served no request
NoWeb == cache = {} /\ ocr_response = <<>> /\ extracted = {}
OthersIdle == NoOverlapCall /\ NoRename /\ NoGrid /\ NoToken /\ NoWeb

InitRest ==
    /\ OthersIdle
    /\ max_rectangles \in 0..MaxRect
    /\ k = 1
    /\ pc = "main"
    /\ rectangles = <<>>
    /\ i = 1
    /\ cropped_image_paths = <<>>
    /\ t = 1
    /\ trimmed_paths = <<>>
    /\ o = 1
    /\ files = {}
    /\ json_files = {}
    /\ exit_code = -1
    /\ hist = [img |-> NoDetection,
               started |-> {},               \* inputs process_image was called for
               calls |-> [d \in TrimmedData |-> 0],  \* analyze_trading_card calls per content
               catalogued |-> {},            \* files whose JSON was saved
               cropped_in |-> {},            \* inputs a crop was written for
               trimmed_in |-> {},            \* inputs trim_image was called for
               submitted_in |-> {},          \* inputs the extraction was called for
               crop_sources |-> {},          \* [path, name, idx] of the crops written
               raised_in |-> 0,              \* the input whose processing raised
               ended |-> "running"]

\* a batch over the scans of ImagePool
Init == input_files \in InputLists /\ min_area = 50 /\ InitRest

\* a batch over the readable sheets of SheetPool
InitSheets == input_files \in SheetLists /\ min_area = 50 /\ InitRest

\* one scan with any contours, with and without an area floor
InitDetect == input_files = <<AnyImage>> /\ min_area \in {0, 50} /\ InitRest

\* "if len(rectangles) < max_rectangles": try the next strategy
EscalateUpTo(n, max) == n <= max
EscalateAlways(n, max) == TRUE
Escalate(n, max) == n < max

\* "continue" after the warning: the loop goes to the next candidate
AfterSkipBreak(idx, last) == last + 1
AfterSkip(idx, last) == idx + 1

\* "if image is None": cv2.imread could not decode the file
ImreadNeverNone(img) == FALSE
ImreadIsNone(img) == img.kind = "unreadable"

\* process_image, steps 1 to 3 in the order written: crop, trim, OCR, return
StageAfterExtractFirst(stage) ==
    IF stage = "normalize" THEN "ocr" ELSE IF stage = "ocr" THEN "trim" ELSE "main"
StageAfter(stage) ==
    IF stage = "normalize" THEN "trim" ELSE IF stage = "trim" THEN "ocr" ELSE "main"

\* trim_image returned None: the loop over cropped_paths goes on
AfterTrimFailureBreak(idx, last) == last + 1
AfterTrimFailure(idx, last) == idx + 1

\* the except clause inside the OCR loop: the loop goes on
AfterOcrErrorBreak(idx, last) == last + 1
AfterOcrError(idx, last) == idx + 1

\* -------------------------------------------------------------- actions
\* main: the loop over input files has ended
InputsDone ==
    /\ pc = "main" /\ k > Len(input_files)
    /\ pc' = "open"
    /\ UNCHANGED <<args, others, k, rectangles, i, cropped_image_paths, t,
                   trimmed_paths, o, files, json_files, exit_code, hist>>

\* main calls process_image for the next input; not a regular file: return
ProcessImage ==
    /\ pc = "main" /\ k <= Len(input_files)
    /\ hist' = [hist EXCEPT !.started = @ \cup {k}, !.img = NoDetection]
    /\ IF input_files[k].kind = "notfile"
       THEN k' = k + 1 /\ pc' = "main"
       ELSE k' = k /\ pc' = "detect"
    /\ rectangles' = <<>> /\ cropped_image_paths' = <<>> /\ trimmed_paths' = <<>>
    /\ i' = 1 /\ t' = 1 /\ o' = 1
    /\ UNCHANGED <<args, others, files, json_files, exit_code>>

\* crop_and_rotate_rectangles up to the first sort: imread, the edge map,
\* the primary detector
PrimaryDetect ==
    /\ pc = "detect"
    /\ IF ImreadIsNone(input_files[k])
       THEN /\ pc' = StageAfter("normalize")
            /\ UNCHANGED <<rectangles, hist, exit_code>>
       ELSE IF input_files[k].kind = "unreadable"
       THEN \* cv2.cvtColor(None, ...) raises
            /\ pc' = "done"
            /\ exit_code' = ExitCodeException
            /\ hist' = [hist EXCEPT !.ended = "exception", !.raised_in = k]
            /\ UNCHANGED rectangles
       ELSE \E contours \in FoundContours(input_files[k], input_files[k].primary) :
              LET found == SortByAreaDesc(PrimaryScan(contours, min_area))
                  more == Escalate(Len(found), max_rectangles)
              IN  /\ rectangles' = found
                  /\ pc' = IF more THEN "morphology" ELSE "normalize"
                  /\ hist' = [hist EXCEPT !.img.n_primary = Len(found),
                                          !.img.discovered =
                                              PrimaryScan(contours, min_area),
                                          !.img.detected = ~more]
                  /\ UNCHANGED exit_code
    /\ UNCHANGED <<args, others, k, i, cropped_image_paths, t, trimmed_paths, o,
                   files, json_files>>

\* the morphology fallback, the merge of its result and the second test
MorphologyDetect ==
    /\ pc = "morphology"
    /\ \E contours \in FoundContours(input_files[k], input_files[k].morphology) :
         LET extra_rectangles ==
                 find_rectangles_with_morphology(contours, min_area, rectangles)
             merged == IF extra_rectangles # <<>>
                       THEN SortByAreaDesc(rectangles \o extra_rectangles)
                       ELSE rectangles
             more == Escalate(Len(merged), max_rectangles)
         IN  /\ rectangles' = merged
             /\ pc' = IF more THEN "contour_merge" ELSE "normalize"
             /\ hist' = [hist EXCEPT !.img.morph_ran = TRUE,
                                     !.img.n_morph_found = Len(extra_rectangles),
                                     !.img.n_after_morph = Len(merged),
                                     !.img.discovered = @ \o extra_rectangles,
                                     !.img.detected = ~more]
    /\ UNCHANGED <<args, others, k, i, cropped_image_paths, t, trimmed_paths, o,
                   files, json_files, exit_code>>

\* the contour-merge fallback and the merge of its result
ContourMergeDetect ==
    /\ pc = "contour_merge"
    /\ \E contours \in FoundContours(input_files[k], input_files[k].contour_merge) :
         LET merged_rectangles ==
                 find_rectangles_with_contour_merging(contours, min_area, rectangles)
         IN  /\ rectangles' = IF merged_rectangles # <<>>
                              THEN SortByAreaDesc(rectangles \o merged_rectangles)
                              ELSE rectangles
             /\ pc' = "normalize"
             /\ hist' = [hist EXCEPT !.img.merge_ran = TRUE,
                                     !.img.discovered = @ \o merged_rectangles,
                                     !.img.detected = TRUE]
    /\ UNCHANGED <<args, others, k, i, cropped_image_paths, t, trimmed_paths, o,
                   files, json_files, exit_code>>

\* one turn of "for i, (_, box) in enumerate(rectangles[:max_rectangles])":
\* skip an invalid crop, or write the crop; cv2.imwrite raises for a file
\* name without a known extension, which nothing below main catches
Normalize ==
    /\ pc = "normalize"
    /\ i <= Len(SliceTo(rectangles, max_rectangles))
    /\ LET img == input_files[k]
           cb == CropBounds(SliceTo(rectangles, max_rectangles)[i].box, img.cols, img.rows)
           output_path == CropPath(img.name, i)
       IN  IF InvalidCrop(cb) \/ ~(FinalSize(cb) > 0)
           THEN /\ i' = AfterSkip(i, Len(SliceTo(rectangles, max_rectangles)))
                /\ hist' = [hist EXCEPT !.img.visited = @ \cup {i},
                                        !.img.skipped = @ \cup {i},
                                        !.img.cropped =
                                            IF InvalidCrop(cb) THEN @ ELSE @ \cup {i},
                                        !.img.discovered = <<>>]
                /\ UNCHANGED <<pc, cropped_image_paths, files, exit_code>>
           ELSE IF img.kind = "noext"
           THEN /\ pc' = "done"
                /\ exit_code' = ExitCodeException
                /\ hist' = [hist EXCEPT !.ended = "exception", !.raised_in = k,
                                        !.img = NoDetection]
                /\ i' = 1 /\ cropped_image_paths' = <<>>
                /\ UNCHANGED files
           ELSE \E b \in CropBytes :
                /\ files' = WriteFile(files, output_path, b)
                /\ cropped_image_paths' = Append(cropped_image_paths, output_path)
                /\ i' = i + 1
                /\ hist' = [hist EXCEPT !.img.visited = @ \cup {i},
                                        !.img.cropped = @ \cup {i},
                                        !.img.written = @ \cup {i},
                                        !.img.discovered = <<>>,
                                        !.cropped_in = @ \cup {k},
                                        !.crop_sources = @ \cup
                                            {[path |-> img.path, name |-> img.name,
                                              idx |-> i]}]
                /\ UNCHANGED <<pc, exit_code>>
    /\ rectangles' = IF pc' = "done" THEN <<>> ELSE rectangles
    /\ UNCHANGED <<args, others, k, t, trimmed_paths, o, json_files>>

\* crop_and_rotate_rectangles returns cropped_image_paths
NormalizeDone ==
    /\ pc = "normalize"
    /\ i > Len(SliceTo(rectangles, max_rectangles))
    /\ pc' = StageAfter("normalize")
    /\ k' = IF pc' = "main" THEN k + 1 ELSE k
    /\ rectangles' = <<>>
    /\ hist' = [hist EXCEPT !.img = NoDetection]
    /\ UNCHANGED <<args, others, i, cropped_image_paths, t,
                   trimmed_paths, o, files, json_files, exit_code>>

\* one turn of "for cropped_path in cropped_paths": trim_image writes the
\* trimmed file and returns its path, or reports an error and returns None
Trim ==
    /\ pc = "trim"
    /\ t <= Len(cropped_image_paths)
    /\ LET cropped_path == cropped_image_paths[t]
           trimmed_path == TrimmedPath(cropped_path)
           call == cropped_path.idx
       IN  \/ /\ files' = WriteFile(files, trimmed_path,
                                    TrimBytes(ReadFile(files, cropped_path)))
              /\ trimmed_paths' = Append(trimmed_paths, trimmed_path)
              /\ t' = t + 1
              /\ hist' = [hist EXCEPT !.img.trims = @ \cup {call},
                                      !.trimmed_in = @ \cup {k}]
           \/ /\ UNCHANGED <<files, trimmed_paths>>
              /\ t' = AfterTrimFailure(t, Len(cropped_image_paths))
              /\ hist' = [hist EXCEPT !.img.trims = @ \cup {call},
                                      !.img.trim_failed = @ \cup {call},
                                      !.trimmed_in = @ \cup {k}]
    /\ UNCHANGED <<args, others, k, pc, rectangles, i, cropped_image_paths, o,
                   json_files, exit_code>>

\* the loop over cropped_paths has ended
TrimDone ==
    /\ pc = "trim"
    /\ t > Len(cropped_image_paths)
    /\ pc' = StageAfter("trim")
    /\ k' = IF pc' = "main" THEN k + 1 ELSE k
    /\ UNCHANGED <<args, others, rectangles, i, cropped_image_paths, t,
                   trimmed_paths, o, files, json_files, exit_code, hist>>

\* one turn of "for trimmed_path in trimmed_paths": the extraction is
\* called first; text that is no JSON makes json.loads raise, which the
\* except clause of the turn catches.  Otherwise the file is renamed when
\* there is a player name, hashed, and the JSON saved as <hash>.json.
Ocr ==
    /\ pc = "ocr"
    /\ o <= Len(trimmed_paths)
    /\ LET trimmed_path == trimmed_paths[o]
           data == ReadFile(files, trimmed_path)
       IN  \E ocr_data \in OcrResults :
             LET final_image_path ==
                     IF ocr_data.player_name # <<>>
                     THEN FinalPath(trimmed_path, ocr_data.player_name)
                     ELSE trimmed_path
                 renamed ==
                     IF final_image_path # trimmed_path
                     THEN WriteFile(RemoveFile(files, trimmed_path),
                                    final_image_path, data)
                     ELSE files
                 json_filename == JsonFilename(renamed, final_image_path)
                 call == trimmed_path.idx
             IN  IF ~ocr_data.json
                 THEN /\ hist' = [hist EXCEPT !.calls[data] = @ + 1,
                                              !.img.submitted = @ \cup {call},
                                              !.img.failed = @ \cup {call},
                                              !.submitted_in = @ \cup {k}]
                      /\ o' = AfterOcrError(o, Len(trimmed_paths))
                      /\ UNCHANGED <<files, json_files>>
                 ELSE /\ files' = renamed
                      /\ json_files' = WriteFile(json_files, json_filename, ocr_data)
                      /\ o' = o + 1
                      /\ hist' = [hist EXCEPT
                                    !.calls[data] = @ + 1,
                                    !.img.submitted = @ \cup {call},
                                    !.submitted_in = @ \cup {k},
                                    !.catalogued = @ \cup
                                        {[path |-> final_image_path, data |-> data]}]
    /\ UNCHANGED <<args, others, k, pc, rectangles, i, cropped_image_paths, t,
                   trimmed_paths, exit_code>>

\* process_image returns; main goes on to the next input
OcrDone ==
    /\ pc = "ocr"
    /\ o > Len(trimmed_paths)
    /\ pc' = StageAfter("ocr")
    /\ k' = IF pc' = "main" THEN k + 1 ELSE k
    /\ hist' = [hist EXCEPT !.img = NoDetection]
    /\ UNCHANGED <<args, others, rectangles, i, cropped_image_paths, t,
                   trimmed_paths, o, files, json_files, exit_code>>

\* subprocess.run(["/usr/bin/xdg-open", trimmed_dir], check=True), then
\* exit(0); when xdg-open fails the exception reaches "except Exception"
OpenTrimmedDir ==
    /\ pc = "open"
    /\ pc' = "done"
    /\ \/ exit_code' = ExitCodeCompleted /\ hist' = [hist EXCEPT !.ended = "completed"]
       \/ exit_code' = ExitCodeException /\ hist' = [hist EXCEPT !.ended = "exception"]
    /\ UNCHANGED <<args, others, k, rectangles, i, cropped_image_paths, t,
                   trimmed_paths, o, files, json_files>>

\* Ctrl-C at any point of main: "except KeyboardInterrupt: ... exit(0)"
KeyboardInterrupt ==
    /\ pc # "done"
    /\ pc' = "done"
    /\ exit_code' = ExitCodeInterrupted
    /\ hist' = [hist EXCEPT !.ended = "interrupt", !.img = NoDetection]
    /\ rectangles' = <<>> /\ cropped_image_paths' = <<>> /\ trimmed_paths' = <<>>
    /\ i' = 1 /\ t' = 1 /\ o' = 1
    /\ UNCHANGED <<args, others, k, files, json_files>>

Next ==
    \/ InputsDone
    \/ ProcessImage
    \/ PrimaryDetect
    \/ MorphologyDetect
    \/ ContourMergeDetect
    \/ Normalize
    \/ NormalizeDone
    \/ Trim
    \/ TrimDone
    \/ Ocr
    \/ OcrDone
    \/ OpenTrimmedDir
    \/ KeyboardInterrupt

Spec == Init /\ [][Next]_vars
SpecDetect == InitDetect /\ [][Next]_vars
SpecSheets == InitSheets /\ [][Next]_vars

\* ------------------------------------------ functions run on their own
\* no batch is running: main has not been entered
NoBatch ==
    /\ input_files = <<>> /\ max_rectangles = 0 /\ min_area = 0
    /\ k = 1 /\ pc = "idle" /\ rectangles = <<>> /\ i = 1
    /\ cropped_image_paths = <<>> /\ t = 1 /\ trimmed_paths = <<>> /\ o = 1
    /\ files = {} /\ json_files = {} /\ exit_code = -1
    /\ hist = <<>>

\* integer boxes with corners in 0..MaxCoord, fitted angle 0 or 90; a box
\* may have lost its width or height to the truncation
OverlapBoxes ==
    { b \in { [x0 |-> x0, y0 |-> y0, x1 |-> x1, y1 |-> y1, ang |-> ang] :
                x0 \in 0..MaxCoord, y0 \in 0..MaxCoord,
                x1 \in 0..MaxCoord, y1 \in 0..MaxCoord, ang \in {0, 90} } :
        b.x0 <= b.x1 /\ b.y0 <= b.y1 }

InitOverlap ==
    /\ NoBatch /\ NoRename /\ NoGrid /\ NoToken /\ NoWeb
    /\ boxes \in { <<a, b>> : a \in OverlapBoxes, b \in OverlapBoxes }
    /\ overlapping = <<>>

\* one call boxes_overlap(box1, box2)
BoxesOverlap ==
    /\ overlapping = <<>>
    /\ overlapping' = <<boxes_overlap(boxes[1], boxes[2])>>
    /\ UNCHANGED <<batch, boxes, rvars, gvars, tvars, wvars>>

NextOverlap == BoxesOverlap
SpecOverlap == InitOverlap /\ [][NextOverlap]_vars

\* the characters of a player name: a letter, a blank, a tab, a slash
NameChars == {"A", " ", "\t", "/"}
PlayerNames == UNION { [1..n -> NameChars] : n \in 0..MaxNameLen }

\* the trimmed crop the extraction was run on
SomeTrimmedPath == TrimmedPath(CropPath("a", 1))

InitRename ==
    /\ NoBatch /\ NoOverlapCall /\ NoGrid /\ NoToken /\ NoWeb
    /\ ocr_name \in PlayerNames
    /\ renamed_path = <<>>

\* "if ocr_data.get("player_name"):" ... os.rename(trimmed_path,
\* final_image_path)
RenameCrop ==
    /\ renamed_path = <<>>
    /\ ocr_name # <<>>
    /\ renamed_path' = <<FinalPath(SomeTrimmedPath, ocr_name)>>
    /\ UNCHANGED <<batch, ovars, gvars, tvars, wvars, ocr_name>>

NextRename == RenameCrop
SpecRename == InitRename /\ [][NextRename]_vars

\* ---------------------------------- contour merging: the grid of cells
\* gray_image.shape of the sheet, and the side of a grid cell
sheet_height == 70
sheet_width == 170
grid_size == 50
grid_rows == sheet_height \div grid_size + 1
grid_cols == sheet_width \div grid_size + 1
Cells == (0..(grid_rows - 1)) \X (0..(grid_cols - 1))

\* cv2.boundingRect of a fragment
Part(x, y, w, h) == [x |-> x, y |-> y, w |-> w, h |-> h]
\* fragments of the top left cell, across the first two cells of the top
\* row, of the third cell of the bottom row (which touches the second and
\* the fourth cell of the top row by a corner), and of the top right cell
PartPool == << Part(5, 5, 10, 10), Part(40, 5, 20, 10),
               Part(105, 55, 10, 10), Part(155, 5, 10, 10) >>

\* the lists of fragments: count[j] fragments like PartPool[j]
RECURSIVE PartsFrom(_, _)
PartsFrom(count, j) ==
    IF j > Len(PartPool) THEN <<>>
    ELSE [n \in 1..count[j] |-> PartPool[j]] \o PartsFrom(count, j + 1)
PartLists ==
    { PartsFrom(count, 1) : count \in [1..Len(PartPool) -> 0..MaxAlike] }

\* "Assign contours to grid cells they overlap with"
CellsOfPart(part) ==
    LET start_row == Max(0, part.y \div grid_size)
        end_row == Min(grid_rows - 1, (part.y + part.h) \div grid_size)
        start_col == Max(0, part.x \div grid_size)
        end_col == Min(grid_cols - 1, (part.x + part.w) \div grid_size)
    IN  (start_row..end_row) \X (start_col..end_col)
BucketParts(parts) ==
    [ rc \in Cells |-> { part_idx \in 1..Len(parts) : rc \in CellsOfPart(parts[part_idx]) } ]

\* "if (r, c) in processed_cells or len(grid[r][c]) < 3: continue"
AlreadyProcessedNever(rc, processed) == FALSE
AlreadyProcessed(rc, processed) == rc \in processed
SeedCellNonEmpty(fragments) == ~(Cardinality(fragments) < 1)
SeedCell(fragments) == ~(Cardinality(fragments) < 3)

\* "if len(region) >= 5"
KeepRegion(fragments) == Cardinality(fragments) >= 5

\* the cell the scan visits after <<r, c>>; <<grid_rows, 0>> ends it
NextCell(rc) ==
    IF rc[2] + 1 < grid_cols THEN <<rc[1], rc[2] + 1>> ELSE <<rc[1] + 1, 0>>

\* "for dr in [-1, 0, 1]: for dc in [-1, 0, 1]"
Offsets == << <<-1, -1>>, <<-1, 0>>, <<-1, 1>>, <<0, -1>>, <<0, 0>>,
              <<0, 1>>, <<1, -1>>, <<1, 0>>, <<1, 1>> >>

\* the neighbours the fill adds for the cell curr, in the order of the two
\* loops: inside the grid, not yet in region_cells, holding a fragment
RECURSIVE NewNeighbours(_, _, _)
NewNeighbours(curr, cells, n) ==
    IF n > Len(Offsets) THEN <<>>
    ELSE LET nr == curr[1] + Offsets[n][1]
             nc == curr[2] + Offsets[n][2]
         IN  IF /\ 0 <= nr /\ nr < grid_rows /\ 0 <= nc /\ nc < grid_cols
                /\ <<nr, nc>> \notin cells
                /\ Cardinality(grid[<<nr, nc>>]) > 0
             THEN <<<<nr, nc>>>> \o NewNeighbours(curr, cells \cup {<<nr, nc>>}, n + 1)
             ELSE NewNeighbours(curr, cells, n + 1)

InitGrid ==
    /\ NoBatch /\ NoOverlapCall /\ NoRename /\ NoToken /\ NoWeb
    /\ potential_parts \in PartLists
    /\ grid = BucketParts(potential_parts)
    /\ cell = <<0, 0>> /\ gpc = "scan"
    /\ processed_cells = {} /\ region = {} /\ region_cells = {}
    /\ frontier = <<>> /\ card_regions = <<>>
    /\ pushed = [rc \in Cells |-> 0]

\* one turn of "for r ... for c ...": skip the cell, or start a region
ScanCell ==
    /\ gpc = "scan" /\ cell[1] < grid_rows
    /\ IF AlreadyProcessed(cell, processed_cells) \/ ~SeedCell(grid[cell])
       THEN /\ cell' = NextCell(cell)
            /\ UNCHANGED <<gpc, region, region_cells, frontier, pushed>>
       ELSE /\ region' = grid[cell]
            /\ region_cells' = {cell}
            /\ frontier' = <<cell>>
            /\ pushed' = [pushed EXCEPT ![cell] = @ + 1]
            /\ gpc' = "fill"
            /\ UNCHANGED cell
    /\ UNCHANGED <<batch, ovars, rvars, tvars, wvars, potential_parts, grid,
                   processed_cells, card_regions>>

\* one turn of "while frontier": pop the first cell, add its neighbours
Expand ==
    /\ gpc = "fill" /\ frontier # <<>>
    /\ LET added == NewNeighbours(Head(frontier), region_cells, 1)
           cells == { added[n] : n \in 1..Len(added) }
       IN  /\ region' = region \cup UNION { grid[rc] : rc \in cells }
           /\ region_cells' = region_cells \cup cells
           /\ frontier' = Tail(frontier) \o added
           /\ pushed' = [rc \in Cells |->
                            IF rc \in cells THEN pushed[rc] + 1 ELSE pushed[rc]]
    /\ UNCHANGED <<batch, ovars, rvars, tvars, wvars, potential_parts, grid, cell, gpc,
                   processed_cells, card_regions>>

\* the frontier is empty: mark the cells, keep the region if it is large
\* enough, go on with the scan; the cells of a kept region are history
CloseRegion ==
    /\ gpc = "fill" /\ frontier = <<>>
    /\ processed_cells' = processed_cells \cup region_cells
    /\ card_regions' = IF KeepRegion(region)
                        THEN Append(card_regions, [parts |-> region, cells |-> region_cells])
                        ELSE card_regions
    /\ region' = {} /\ region_cells' = {}
    /\ cell' = NextCell(cell)
    /\ gpc' = "scan"
    /\ UNCHANGED <<batch, ovars, rvars, tvars, wvars, potential_parts, grid, frontier, pushed>>

\* the scan has passed the last row
ScanDone ==
    /\ gpc = "scan" /\ cell[1] >= grid_rows
    /\ gpc' = "done"
    /\ UNCHANGED <<batch, ovars, rvars, tvars, wvars, potential_parts, grid, cell,
                   processed_cells, region, region_cells, frontier,
                   card_regions, pushed>>

NextGrid ==
    \/ ScanCell
    \/ Expand
    \/ CloseRegion
    \/ ScanDone

SpecGrid == InitGrid /\ [][NextGrid]_vars
\* the loops run on: no step of the scan or of the fill waits for anything
SpecGridFair == SpecGrid /\ WF_vars(NextGrid)

\* ------------------------------------------- web/app/ebay.py: the token
\* the token file: AUTH_TOKEN and REFRESH_TOKEN ("" when empty), with or
\* without the field EXPIRES_AT
HasExpiry(token_data) == "EXPIRES_AT" \in DOMAIN token_data
TokenFiles ==
    LET plain == { [AUTH_TOKEN |-> a, REFRESH_TOKEN |-> r] :
                     a \in {"", "t0"}, r \in {"", "r0"} }
    IN  plain \cup { f @@ ("EXPIRES_AT" :> e) : f \in plain, e \in {0, 1300, 1301} }

\* the instants at which the application is called
ClockValues == {1000, 1001, 7899, 7900}

\* _load_token_data: what it returns and, after the migration, has saved
load_token_data(file, time) ==
    IF ~HasExpiry(file) /\ file.AUTH_TOKEN # ""
    THEN file @@ ("EXPIRES_AT" :> time + 7200)
    ELSE file

\* _is_token_expired, on the data _load_token_data returns
is_token_expired(file, time) ==
    LET token_data == load_token_data(file, time)
    IN  IF ~HasExpiry(token_data) \/ token_data.EXPIRES_AT = 0
        THEN TRUE
        ELSE time >= token_data.EXPIRES_AT - 300

\* _refresh_user_token: what eBay answers, <<>> when the request fails
RefreshAnswers(time) ==
    { <<>> } \cup
    { [access_token |-> "t1", refresh_token |-> r, expires_at |-> time + 7200] :
        r \in {"", "r1"} }

InitToken ==
    /\ NoBatch /\ NoOverlapCall /\ NoRename /\ NoGrid /\ NoWeb
    /\ token_file \in TokenFiles
    /\ now = 1000
    /\ token_result = <<>>

\* time passes between two calls
Tick ==
    /\ \E later \in ClockValues : later > now /\ now' = later
    /\ UNCHANGED <<batch, ovars, rvars, gvars, wvars, token_file, token_result>>

\* a call of _is_token_expired
IsTokenExpired ==
    /\ token_file' = load_token_data(token_file, now)
    /\ token_result' = [call |-> "_is_token_expired", before |-> token_file,
                         at |-> now, value |-> is_token_expired(token_file, now),
                         refreshed |-> FALSE]
    /\ UNCHANGED <<batch, ovars, rvars, gvars, wvars, now>>

\* a call of get_ebay_user_token: "raised" or the token it returns
GetEbayUserToken ==
    /\ LET token_data == load_token_data(token_file, now)
           Outcome(value, refreshed) ==
               [call |-> "get_ebay_user_token", before |-> token_file,
                at |-> now, value |-> value, refreshed |-> refreshed]
       IN  IF token_data.AUTH_TOKEN = ""
           THEN /\ token_file' = token_data
                /\ token_result' = Outcome("raised", FALSE)
           ELSE IF ~is_token_expired(token_data, now)
           THEN /\ token_file' = token_data
                /\ token_result' = Outcome(token_data.AUTH_TOKEN, FALSE)
           ELSE IF token_data.REFRESH_TOKEN = ""
           THEN /\ token_file' = token_data
                /\ token_result' = Outcome("raised", FALSE)
           ELSE \E answer \in RefreshAnswers(now) :
                  IF answer = <<>>
                  THEN /\ token_file' = token_data
                       /\ token_result' = Outcome("raised", FALSE)
                  ELSE /\ token_file' =
                              [AUTH_TOKEN |-> answer.access_token,
                               REFRESH_TOKEN |->
                                   IF answer.refresh_token # ""
                                   THEN answer.refresh_token
                                   ELSE token_data.REFRESH_TOKEN,
                               EXPIRES_AT |-> answer.expires_at]
                       /\ token_result' = Outcome(answer.access_token, TRUE)
    /\ UNCHANGED <<batch, ovars, rvars, gvars, wvars, now>>

NextToken ==
    \/ Tick
    \/ IsTokenExpired
    \/ GetEbayUserToken

SpecToken == InitToken /\ [][NextToken]_vars

\* ----------------------------------- web/app/main.py: /api/ocr-image
\* the contents of the files that are uploaded
Uploads == {0, 1, 2}

\* get_file_hash: hashlib.md5(content).hexdigest()
get_file_hash(content) == Md5(content)

\* cache/<file_hash>.jpg and cache/<file_hash>.json
CachePath(file_hash, ext) == [hash |-> file_hash, ext |-> ext]

InitWeb ==
    /\ NoBatch /\ NoOverlapCall /\ NoRename /\ NoGrid /\ NoToken
    /\ cache = {}
    /\ ocr_response = <<>>
    /\ extracted = {}

\* one request POST /api/ocr-image: the upload is stored under its hash;
\* the cached text is read, or analyze_trading_card is called and what it
\* returns is written to the cache; then json.loads, whose exception
\* becomes the response 500
OcrImage ==
    \E content \in Uploads :
      LET file_hash == get_file_hash(content)
          img_cache_path == CachePath(file_hash, "jpg")
          json_cache_path == CachePath(file_hash, "json")
          img_cache_hit == Exists(cache, img_cache_path)
          with_image == IF img_cache_hit THEN cache
                        ELSE WriteFile(cache, img_cache_path, content)
          json_cache_hit == Exists(with_image, json_cache_path)
          Respond(ocr_data) ==
              ocr_response' =
                  [hash |-> file_hash, analyzed |-> ~json_cache_hit,
                   cache_hit |-> img_cache_hit,
                   status |-> IF ocr_data.json THEN 200 ELSE 500]
      IN  /\ IF json_cache_hit
             THEN /\ cache' = with_image
                  /\ Respond(ReadFile(with_image, json_cache_path))
                  /\ UNCHANGED extracted
             ELSE \E ocr_data \in OcrResults :
                  /\ cache' = WriteFile(with_image, json_cache_path, ocr_data)
                  /\ Respond(ocr_data)
                  /\ extracted' = IF ocr_data.json
                                   THEN extracted \cup {file_hash} ELSE extracted
          /\ UNCHANGED <<batch, ovars, rvars, gvars, tvars>>

NextWeb == OcrImage
SpecWeb == InitWeb /\ [][NextWeb]_vars

\* ================================================================ claims
Todo == SliceTo(rectangles, max_rectangles)
Detected == pc = "normalize"
LoopEnded == pc = "normalize" /\ i > Len(Todo)
Strategies == { rectangles[j].strategy : j \in 1..Len(rectangles) }

\* C1 (as stated): once detection has ended, no two distinct candidates of
\* the accepted list overlap according to boxes_overlap.
C1_NoTwoAcceptedOverlap ==
    Detected =>
        \A a, b \in 1..Len(rectangles) :
            a # b => ~boxes_overlap(rectangles[a].box, rectangles[b].box)

\* C2: every accepted candidate has a fitted size whose ratio
\* min(w,h)/max(w,h) lies in the band of the strategy that accepted it
\* (primary 0.65-0.75, morphology 0.63-0.77, contour-merge 0.60-0.80), and
\* so in 0.60-0.80.
C2_AcceptedInBand ==
    \A j \in 1..Len(rectangles) :
        LET c == rectangles[j]
            mn == Min(c.rw, c.rh)
            mx == Max(c.rw, c.rh)
            band == IF c.strategy = "primary" THEN <<65, 75>>
                    ELSE IF c.strategy = "morphology" THEN <<63, 77>>
                    ELSE <<60, 80>>
        IN  /\ mx > 0
            /\ band[1] * mx <= 100 * mn /\ 100 * mn <= band[2] * mx
            /\ 60 * mx <= 100 * mn /\ 100 * mn <= 80 * mx
C2_Witness ==
    Detected /\ Strategies = {"primary", "morphology", "contour_merge"}

\* C3: the morphology fallback runs exactly when the primary detector
\* returned fewer than max_rectangles candidates; the contour-merge fallback
\* runs exactly when morphology ran and the merged list is still shorter
\* than max_rectangles; contour-merge never runs without morphology.
C3_EscalationGuarded ==
    LET h == hist.img
    IN  /\ h.merge_ran => h.morph_ran
        /\ h.morph_ran => h.n_primary < max_rectangles
        /\ h.merge_ran => h.n_after_morph < max_rectangles
        /\ Detected =>
             /\ h.morph_ran <=> h.n_primary < max_rectangles
             /\ h.merge_ran <=>
                    (h.morph_ran /\ h.n_after_morph < max_rectangles)
C3_Witness ==
    /\ Detected /\ hist.img.morph_ran /\ ~hist.img.merge_ran
    /\ hist.img.n_primary < hist.img.n_after_morph

\* C4 (as stated): when the primary detector finds 0 candidates and the
\* morphology fallback exactly 1, the list holds exactly that candidate and
\* contour-merge is not invoked.
C4_OneFromMorphologyEndsDetection ==
    (Detected /\ hist.img.n_primary = 0 /\ hist.img.n_morph_found = 1) =>
        (Len(rectangles) = 1 /\ ~hist.img.merge_ran)

\* C4 (amended): the same, when max_rectangles is 1.
C4_OneFromMorphologyEndsDetectionAtCapOne ==
    (/\ Detected /\ hist.img.n_primary = 0 /\ hist.img.n_morph_found = 1
     /\ max_rectangles = 1) =>
        (/\ Len(rectangles) = 1
         /\ rectangles[1].strategy = "morphology"
         /\ ~hist.img.merge_ran)
C4_Witness ==
    /\ Detected /\ hist.img.n_primary = 0 /\ hist.img.n_morph_found = 1
    /\ max_rectangles = 1

\* C5 (as stated): the metadata extraction is called at most once for each
\* distinct content of a trimmed image.
C5_ExtractionOncePerContent ==
    \A d \in TrimmedData : hist.calls[d] <= 1

\* C6: every image whose cataloguing succeeded has exactly one JSON document
\* named by the MD5 of its final bytes, and there are as many documents as
\* distinct hashes of catalogued contents.
C6_OneDocumentPerContentHash ==
    /\ \A c \in hist.catalogued :
         Cardinality({ f \in json_files : f.path = Md5(c.data) }) = 1
    /\ Cardinality(json_files) =
         Cardinality({ Md5(c.data) : c \in hist.catalogued })
C6_Witness ==
    \E c1, c2 \in hist.catalogued :
        /\ c1.path # c2.path /\ c1.data = c2.data
        /\ c1.path.prefix # <<>>
        /\ Cardinality(json_files) = 1

C8_BatchOutlivesFailures ==
    (pc = "done" /\ hist.ended # "interrupt") =>
        hist.started = 1..Len(input_files)

\* C9 (as stated): the exit code is 0 on normal completion and non-zero
\* when the run ends by keyboard interrupt or by an uncaught exception.
C9_ExitCodeNonZeroOnInterrupt ==
    pc = "done" =>
        /\ hist.ended = "completed" => exit_code = 0
        /\ hist.ended \in {"interrupt", "exception"} => exit_code # 0

\* C9 (amended): the exit code is 0 on normal completion and on keyboard
\* interrupt, and 1 when an exception reaches the main guard.
C9_ExitCodeZeroUnlessException ==
    /\ pc = "done" <=> exit_code # -1
    /\ pc = "done" =>
        /\ hist.ended \in {"completed", "interrupt"} => exit_code = 0
        /\ hist.ended = "exception" => exit_code = 1
C9_Witness ==
    pc = "done" /\ hist.ended = "interrupt" /\ hist.started # {} /\ files # {}

\* C10: a candidate whose clamped crop box is empty or inverted, or whose
\* final raster is empty, is skipped: no crop file, no path returned; and the
\* loop still visits every other candidate up to the cap.
C10_SkipAndContinue ==
    LoopEnded =>
        \A j \in 1..Len(Todo) :
            LET img == input_files[k]
                cb == CropBounds(Todo[j].box, img.cols, img.rows)
                degenerate ==
                    \/ cb.x_min >= cb.x_max
                    \/ cb.y_min >= cb.y_max
                    \/ (cb.x_max - cb.x_min) * (cb.y_max - cb.y_min) = 0
            IN  /\ j \in hist.img.visited
                /\ degenerate =>
                     /\ j \in hist.img.skipped
                     /\ ~Exists(files, CropPath(img.name, j))
                     /\ \A m \in 1..Len(cropped_image_paths) :
                          cropped_image_paths[m] # CropPath(img.name, j)
C10_Witness ==
    /\ LoopEnded
    /\ \E a \in hist.img.skipped : \E b \in hist.img.visited : b > a
    /\ hist.img.written # {}

\* C11: an input that cv2.imread cannot decode yields no crop, no trim call
\* and no extraction call and raises nothing, and unless the run is
\* interrupted the driver goes on to the input after it.
C11_UnreadableAbortsOnlyItself ==
    \A j \in hist.started :
        input_files[j].kind = "unreadable" =>
            /\ j \notin hist.cropped_in \cup hist.trimmed_in \cup hist.submitted_in
            /\ hist.raised_in # j
            /\ (pc = "done" /\ hist.ended # "interrupt" /\ j < Len(input_files))
                   => j + 1 \in hist.started
C11_Witness ==
    /\ pc = "done" /\ hist.ended = "completed"
    /\ \E j \in hist.started :
         /\ input_files[j].kind = "unreadable" /\ j < Len(input_files)
         /\ j + 1 \in hist.submitted_in

\* C12: a step in which the extraction of one trimmed image fails writes no
\* JSON document and renames nothing, and when the OCR loop of an image is
\* left every trimmed image of it has been submitted to the extraction.
C12_ExtractionFailureIsolated ==
    [][ /\ hist'.img.failed \ hist.img.failed # {} =>
             (json_files' = json_files /\ files' = files)
        /\ (pc = "ocr" /\ pc' \notin {"ocr", "done"}) =>
             \A m \in 1..Len(trimmed_paths) :
                 trimmed_paths[m].idx \in hist.img.submitted ]_vars
C12_Witness ==
    /\ pc = "ocr" /\ o > Len(trimmed_paths) /\ json_files # {}
    /\ \E e \in hist.img.failed : \E f \in hist.img.submitted \ hist.img.failed :
         e < f

\* C13: a crop for which trim_image failed is never submitted to the
\* extraction; every crop of the image gets its trim call, the trimmed
\* paths are those of the calls that succeeded, and at the end of the OCR
\* loop every crop that was trimmed has been submitted.
C13_TrimFailureSkipsOnlyThatCrop ==
    /\ hist.img.trim_failed \cap hist.img.submitted = {}
    /\ pc = "ocr" =>
         /\ \A m \in 1..Len(cropped_image_paths) :
                cropped_image_paths[m].idx \in hist.img.trims
         /\ { trimmed_paths[m].idx : m \in 1..Len(trimmed_paths) } =
                hist.img.trims \ hist.img.trim_failed
    /\ (pc = "ocr" /\ o > Len(trimmed_paths)) =>
         (hist.img.trims \ hist.img.trim_failed) \subseteq hist.img.submitted
C13_Witness ==
    /\ pc = "ocr" /\ o > Len(trimmed_paths)
    /\ \E e \in hist.img.trim_failed : \E f \in hist.img.submitted : e < f

\* C14 (as stated): two crops written for different (source image path,
\* candidate index) pairs never have the same output path.
C14_CropPathsNamespaced ==
    \A e, f \in hist.crop_sources :
        <<e.path, e.idx>> # <<f.path, f.idx>> =>
            CropPath(e.name, e.idx) # CropPath(f.name, f.idx)

\* a contour with at least num/10 of min_area and a ratio within lo..hi percent
Qualifies(c, lo, hi, num) ==
    LET mn == Min(RectWidth(c), RectHeight(c))
        mx == Max(RectWidth(c), RectHeight(c))
    IN  /\ 10 * c.carea >= num * min_area
        /\ mx > 0 /\ lo * mx <= 100 * mn /\ 100 * mn <= hi * mx
NothingQualifies(img) ==
    /\ img.kind = "ok" /\ ~img.any
    /\ \A m \in 1..Len(img.primary) : ~Qualifies(img.primary[m], 65, 75, 10)
    /\ \A m \in 1..Len(img.morphology) : ~Qualifies(img.morphology[m], 63, 77, 8)
    /\ \A m \in 1..Len(img.contour_merge) :
           ~Qualifies(img.contour_merge[m], 60, 80, 7)

\* C15: an input in which no contour of any strategy qualifies ends
\* detection with an empty candidate list, yields no crop, no trim call and
\* no extraction call and raises nothing, and unless the run is interrupted
\* the driver goes on to the input after it.
C15_NothingFoundIsNoError ==
    \A j \in hist.started :
        NothingQualifies(input_files[j]) =>
            /\ (k = j /\ pc \in {"morphology", "contour_merge", "normalize"})
                   => rectangles = <<>>
            /\ j \notin hist.cropped_in \cup hist.trimmed_in \cup hist.submitted_in
            /\ hist.raised_in # j
            /\ (pc = "done" /\ hist.ended # "interrupt" /\ j < Len(input_files))
                   => j + 1 \in hist.started
C15_Witness ==
    /\ pc = "done" /\ hist.ended = "completed" /\ max_rectangles >= 1
    /\ \E j \in hist.started :
         /\ NothingQualifies(input_files[j]) /\ j < Len(input_files)
         /\ input_files[j].contour_merge # <<>>
         /\ j + 1 \in hist.submitted_in

\* the order of the stages of one input
StageRank(p) ==
    CASE p = "main" -> 0 [] p = "detect" -> 1 [] p = "morphology" -> 2
      [] p = "contour_merge" -> 3 [] p = "normalize" -> 4 [] p = "trim" -> 5
      [] p = "ocr" -> 6 [] p = "open" -> 7 [] OTHER -> 8

\* C16: inputs are processed one after another and the stages of an input
\* run in the order detection (with the overlap test of the fallbacks),
\* normalization, trim, extraction: a stage is left only when its loop is
\* over, for the stage after it; the driver moves to input k+1 only from
\* the end of the extraction of input k (or when input k is no file); and
\* nothing is cropped, trimmed or submitted for an input before the stage
\* that does it or for another input than the current one.
C16_OneInputAndOneStageAtATime ==
    /\ [][ /\ StageRank(pc') >= StageRank(pc) \/ (pc' = "main" /\ k' = k + 1)
           /\ k' # k => (k' = k + 1 /\ pc' = "main" /\ pc \in {"main", "ocr"})
           /\ (pc = "normalize" /\ pc' \notin {"normalize", "done"}) =>
                 (pc' = "trim" /\ i > Len(Todo))
           /\ (pc = "trim" /\ pc' \notin {"trim", "done"}) =>
                 (pc' = "ocr" /\ t > Len(cropped_image_paths))
           /\ (pc = "ocr" /\ pc' \notin {"ocr", "done"}) =>
                 (pc' = "main" /\ o > Len(trimmed_paths))
           /\ (hist'.cropped_in \ hist.cropped_in)
                 \cup (hist'.trimmed_in \ hist.trimmed_in)
                 \cup (hist'.submitted_in \ hist.submitted_in) \subseteq {k} ]_vars
    /\ [](/\ hist.submitted_in \subseteq hist.trimmed_in
          /\ hist.trimmed_in \subseteq hist.cropped_in
          /\ hist.cropped_in \subseteq hist.started
          /\ k \in hist.cropped_in => StageRank(pc) >= 4
          /\ k \in hist.trimmed_in => StageRank(pc) >= 5
          /\ k \in hist.submitted_in => StageRank(pc) >= 6)
C16_Witness ==
    /\ pc = "ocr" /\ k = 2 /\ o > 1
    /\ {1, 2} \subseteq hist.submitted_in

\* C17 (as stated): every candidate of the primary detector has a ratio
\* min(w,h)/max(w,h) between 0.71 and 0.72.
C17_PrimaryBand7172 ==
    \A j \in 1..Len(rectangles) :
        rectangles[j].strategy = "primary" =>
            LET mn == Min(rectangles[j].rw, rectangles[j].rh)
                mx == Max(rectangles[j].rw, rectangles[j].rh)
            IN  71 * mx <= 100 * mn /\ 100 * mn <= 72 * mx

\* C17 (amended): every candidate of the primary detector has a ratio
\* between 0.65 and 0.75.
C17_PrimaryBand6575 ==
    \A j \in 1..Len(rectangles) :
        rectangles[j].strategy = "primary" =>
            LET mn == Min(rectangles[j].rw, rectangles[j].rh)
                mx == Max(rectangles[j].rw, rectangles[j].rh)
            IN  mx > 0 /\ 65 * mx <= 100 * mn /\ 100 * mn <= 75 * mx
C17_Witness ==
    /\ Detected
    /\ \E a, b \in 1..Len(rectangles) :
         /\ rectangles[a].strategy = "primary" /\ rectangles[b].strategy = "primary"
         /\ 100 * Min(rectangles[a].rw, rectangles[a].rh) =
                75 * Max(rectangles[a].rw, rectangles[a].rh)
         /\ 100 * Min(rectangles[b].rw, rectangles[b].rh) <
                70 * Max(rectangles[b].rw, rectangles[b].rh)

\* tenths of min_area a strategy asks for
AreaTenths(strategy) ==
    IF strategy = "primary" THEN 10 ELSE IF strategy = "morphology" THEN 8 ELSE 7

\* C18 (as stated): the area retained with every candidate is at least the
\* area threshold of the strategy that accepted it.
C18_RetainedAreaAtLeastThreshold ==
    \A j \in 1..Len(rectangles) :
        10 * rectangles[j].area >= AreaTenths(rectangles[j].strategy) * min_area

\* C18 (amended): the contour area a strategy tested is at least its
\* threshold, for every candidate.
C18_TestedAreaAtLeastThreshold ==
    \A j \in 1..Len(rectangles) :
        10 * rectangles[j].carea >= AreaTenths(rectangles[j].strategy) * min_area
C18_Witness ==
    /\ Detected /\ min_area > 0
    /\ \E a, b \in 1..Len(rectangles) :
         /\ rectangles[a].strategy # "primary" /\ rectangles[a].carea < min_area
         /\ rectangles[b].area < rectangles[b].carea

\* C19: the list the crop loop is given is in non-increasing order of area.
C19_SortedByAreaDescending ==
    Detected =>
        \A a, b \in 1..Len(rectangles) :
            a < b => rectangles[a].area >= rectangles[b].area
C19_Witness ==
    /\ Detected /\ Strategies = {"primary", "morphology", "contour_merge"}
    /\ \E a, b \in 1..Len(rectangles) :
         /\ a < b /\ rectangles[a].area > rectangles[b].area
         /\ rectangles[a].strategy # "primary" /\ rectangles[b].strategy = "primary"

\* C20 (as stated): a candidate accepted by a fallback overlaps no candidate
\* accepted before it: none of the primary detector, none of an earlier
\* fallback, none of its own pass.
C20_FallbackAcceptsOnlyNonOverlapping ==
    \A a, b \in 1..Len(rectangles) :
        (a # b /\ rectangles[a].strategy # "primary") =>
            ~boxes_overlap(rectangles[a].box, rectangles[b].box)

\* C22: among candidates of equal area the ranked list keeps the order of
\* discovery (contour order within a strategy, primary before morphology
\* before contour-merge), after the first sort and after every re-sort of
\* the merged list.
DiscoveryRank(cand) ==
    CHOOSE j \in 1..Len(hist.img.discovered) : hist.img.discovered[j] = cand
C22_EqualAreasKeepDiscoveryOrder ==
    (pc \in {"morphology", "contour_merge", "normalize"} /\ hist.img.visited = {}) =>
        /\ Len(rectangles) = Len(hist.img.discovered)
        /\ \A a, b \in 1..Len(rectangles) :
              (a < b /\ rectangles[a].area = rectangles[b].area) =>
                  DiscoveryRank(rectangles[a]) < DiscoveryRank(rectangles[b])
\* a re-sort has merged an equal-area candidate of a later strategy
C22_Witness ==
    /\ pc = "normalize" /\ hist.img.visited = {}
    /\ \E a, b \in 1..Len(rectangles) :
          /\ a < b /\ rectangles[a].area = rectangles[b].area
          /\ rectangles[a].strategy = "primary"
          /\ rectangles[b].strategy # "primary"
    /\ \E a, b \in 1..Len(rectangles) :
          /\ a < b /\ rectangles[a].area = rectangles[b].area
          /\ rectangles[a].strategy = rectangles[b].strategy

\* the crop bounds of the candidate at position j of the loop
BoundsOf(j) ==
    CropBounds(Todo[j].box, input_files[k].cols, input_files[k].rows)

\* C23: for every candidate whose crop was written, with fitted size
\* (w, h): the angle was raised by 90 degrees exactly when w < h, the crop
\* taken from the rotated canvas has its longer side horizontal, and the
\* written output, after the clockwise quarter turn, is portrait with
\* width min(w,h) and height max(w,h).
C23_OutputIsPortraitOfSameSize ==
    pc = "normalize" =>
        \A j \in hist.img.written :
            LET box == Todo[j].box
                w == BoxWidth(box)
                h == BoxHeight(box)
                cb == BoundsOf(j)
            IN  /\ cb.angle - box.ang = (IF w < h THEN 90 ELSE 0)
                /\ cb.x_max - cb.x_min >= cb.y_max - cb.y_min
                /\ FinalShape(cb).width = Min(w, h)
                /\ FinalShape(cb).height = Max(w, h)
\* written crops of a box reported upright (angle raised) and of a box
\* reported lying (angle kept)
C23_Witness ==
    /\ pc = "normalize"
    /\ \E j \in hist.img.written : BoxWidth(Todo[j].box) < BoxHeight(Todo[j].box)
    /\ \E j \in hist.img.written : BoxWidth(Todo[j].box) > BoxHeight(Todo[j].box)

\* the least integer whose square is at least n
RECURSIVE CeilSqrtFrom(_, _)
CeilSqrtFrom(n, r) == IF r * r >= n THEN r ELSE CeilSqrtFrom(n, r + 1)

\* C24 (as stated): the padding put on all four sides for a candidate of
\* fitted size (w, h) is ceil(sqrt(w^2 + h^2)) + 20, so the padding less
\* the margin of 20 is never smaller than the diagonal of the rectangle.
C24_PaddingIsCeilOfDiagonalPlusMargin ==
    pc = "normalize" =>
        \A j \in hist.img.visited :
            LET w == BoxWidth(Todo[j].box)
                h == BoxHeight(Todo[j].box)
                padding == BoundsOf(j).diagonal
            IN  /\ padding = CeilSqrtFrom(w * w + h * h, 0) + 20
                /\ (padding - 20) * (padding - 20) >= w * w + h * h

\* C25: every crop taken from the rotated padded image has bounds with
\* 0 <= x_min < x_max <= padded_width and 0 <= y_min < y_max <=
\* padded_height.
C25_CropBoundsValid ==
    pc = "normalize" =>
        \A j \in hist.img.cropped :
            LET cb == BoundsOf(j)
            IN  /\ 0 <= cb.x_min /\ cb.x_min < cb.x_max
                /\ cb.x_max <= cb.padded_width
                /\ 0 <= cb.y_min /\ cb.y_min < cb.y_max
                /\ cb.y_max <= cb.padded_height
\* one candidate was skipped for its empty crop region and another cropped
C25_Witness ==
    /\ pc = "normalize"
    /\ hist.img.cropped # {}
    /\ hist.img.skipped \ hist.img.cropped # {}

\* C21: boxes_overlap returns true exactly when the distance of the two
\* fitted centers along x is within (strictly below) 0.7 x (half-width1 +
\* half-width2) and their distance along y is within 0.7 x (half-height1 +
\* half-height2); the result is the same with the arguments exchanged.
\* Centers and half sizes are doubled and 0.7 is written 7/10.
TwiceCenterX(b) == b.x0 + b.x1
TwiceCenterY(b) == b.y0 + b.y1
FittedWidth(b) == IF b.ang = 0 THEN b.x1 - b.x0 ELSE b.y1 - b.y0
FittedHeight(b) == IF b.ang = 0 THEN b.y1 - b.y0 ELSE b.x1 - b.x0
CentersClose(a, b) ==
    /\ 10 * Abs(TwiceCenterX(a) - TwiceCenterX(b))
           < 7 * (FittedWidth(a) + FittedWidth(b))
    /\ 10 * Abs(TwiceCenterY(a) - TwiceCenterY(b))
           < 7 * (FittedHeight(a) + FittedHeight(b))
C21_OverlapIsScaledCenterTest ==
    overlapping # <<>> =>
        /\ overlapping[1] = CentersClose(boxes[1], boxes[2])
        /\ overlapping[1] = boxes_overlap(boxes[2], boxes[1])
\* a call that returned true for two different boxes of different size
C21_Witness ==
    /\ overlapping = <<TRUE>>
    /\ boxes[1] # boxes[2]
    /\ FittedWidth(boxes[1]) # FittedWidth(boxes[2])
    /\ TwiceCenterX(boxes[1]) # TwiceCenterX(boxes[2])

\* C27 (as stated): the token put in front of a renamed crop holds none of
\* the characters < > : " / \ | ? * and no whitespace character, a run of
\* whitespace of the name having become one underscore; the renamed file
\* is <token>-<original filename> in the directory of the trimmed crop.
C27_TokenIsFilesystemSafe ==
    renamed_path # <<>> =>
        LET token == renamed_path[1].prefix
        IN  /\ \A j \in 1..Len(token) :
                  token[j] \notin IllegalChars \cup WhitespaceChars
            /\ (\A j \in 1..Len(ocr_name) : ocr_name[j] \notin IllegalChars) =>
                  \A j \in 1..(Len(token) - 1) :
                      ~(token[j] = "_" /\ token[j + 1] = "_")
            /\ renamed_path[1] = [SomeTrimmedPath EXCEPT !.prefix = token]

\* the maximal 8-connected sets of cells that hold a fragment
NonEmptyCells == { rc \in Cells : grid[rc] # {} }
Adjacent(a, b) == a # b /\ Abs(a[1] - b[1]) <= 1 /\ Abs(a[2] - b[2]) <= 1
RECURSIVE ComponentFrom(_)
ComponentFrom(S) ==
    LET T == S \cup { b \in NonEmptyCells : \E a \in S : Adjacent(a, b) }
    IN  IF T = S THEN S ELSE ComponentFrom(T)
Components == { ComponentFrom({a}) : a \in NonEmptyCells }
FragmentsIn(comp) == UNION { grid[rc] : rc \in comp }
Clusters == { card_regions[n].parts : n \in 1..Len(card_regions) }

\* C26: when the scan of the grid has ended, the clusters kept are the
\* fragment sets of the maximal 8-connected components of non-empty cells
\* that have a cell with at least 3 fragments and at least 5 distinct
\* fragments in all, each once; every other component yields no cluster.
C26_ClustersAreDenseComponents ==
    gpc = "done" =>
        /\ Clusters =
              { FragmentsIn(comp) :
                  comp \in { q \in Components :
                               /\ \E rc \in q : Cardinality(grid[rc]) >= 3
                               /\ Cardinality(FragmentsIn(q)) >= 5 } }
        /\ Len(card_regions) = Cardinality(Clusters)
        /\ \A n \in 1..Len(card_regions) : card_regions[n].cells \in Components
\* a grid with a kept cluster spread over several cells and a component
\* that was dropped
C26_Witness ==
    /\ gpc = "done"
    /\ \E n \in 1..Len(card_regions) : Cardinality(card_regions[n].cells) >= 2
    /\ \E comp \in Components : FragmentsIn(comp) \notin Clusters

\* C30: the fill and the scan end for every grid; no cell is ever put on
\* a frontier twice, and no cell and no fragment is in two clusters.
C30_FillTerminatesClustersDisjoint ==
    /\ <>(gpc = "done")
    /\ [](\A rc \in Cells : pushed[rc] <= 1)
    /\ [](\A a, b \in 1..Len(card_regions) :
             a # b => /\ card_regions[a].parts \cap card_regions[b].parts = {}
                      /\ card_regions[a].cells \cap card_regions[b].cells = {})
\* a scan that ended with two clusters, one of them over several cells
C30_Witness ==
    /\ gpc = "done"
    /\ Len(card_regions) = 2
    /\ Cardinality({ rc \in Cells : pushed[rc] = 1 }) >= 3

\* C28 (as stated): _is_token_expired returns True when the token file
\* stores no EXPIRES_AT, and otherwise exactly when the current time is at
\* or past EXPIRES_AT - 300; get_ebay_user_token never returns a stored
\* token that has no recorded expiry without refreshing it.
C28_NoExpiryForcesRefresh ==
    token_result # <<>> =>
        LET file == token_result.before
        IN  /\ token_result.call = "_is_token_expired" =>
                  token_result.value =
                      IF ~HasExpiry(file) THEN TRUE
                      ELSE token_result.at >= file.EXPIRES_AT - 300
            /\ ( /\ token_result.call = "get_ebay_user_token"
                 /\ token_result.value # "raised"
                 /\ ~HasExpiry(file) ) => token_result.refreshed

\* C29 (as stated): the cache of the OCR endpoint holds a JSON entry for a
\* content hash only if the extraction for that hash succeeded and gave
\* parseable JSON; after a failed or malformed extraction a later request
\* with the same bytes calls the extraction again, so no failure is
\* answered from the cache.
C29_CacheHoldsOnlyParsedResults ==
    /\ \A f \in cache :
          f.path.ext = "json" => (f.data.json /\ f.path.hash \in extracted)
    /\ (ocr_response # <<>> /\ ocr_response.status = 500) => ocr_response.analyzed
====
